---- MODULE Spec2Model ----
(***************************************************************************)
(* A model of the AcroForm field engine of pdf-form (src/src/pdfformfill.rs): *)
(* the string codec, field discovery (load_doc), the type classifier        *)
(* (get_type), the state decoder (get_state), the four setters and the bulk *)
(* fill resolver.                                                           *)
(*                                                                          *)
(* Representation.  A Rust String is the sequence of its Unicode scalar     *)
(* values; a byte vector is a sequence of numbers 0..255; String <-> bytes  *)
(* conversions (into_bytes, from_utf8, encode_utf16, from_utf16) are        *)
(* computed, never taken as the identity.  A lopdf Object is a record       *)
(* tagged by its variant; a Dictionary keeps its entries in insertion order *)
(* as a sequence of <<key, value>> pairs.                                   *)
(***************************************************************************)
EXTENDS Integers, Sequences, FiniteSets, TLC

VARIABLES
    doc,          \* Form.doc: [trailer: Dictionary, objects: ObjectId -> Object]
    form_fields,  \* Form.form_fields: full name -> ObjectId (a function)
    pc,           \* "load" | "ready" | "failed" | "fill"
    queue,        \* load_doc's work queue
    loadRes,      \* "none" | "Ok" | a LoadError | "Panic"
    last,         \* the last public call on the Form and what it returned
    fl,           \* the running fill call: its locals
    cin,          \* codec: the String handed to to_pdf_utf16
    cbytes,       \* codec: the PDF string bytes
    cout,         \* codec: what encode_form_name returned
    cpc           \* codec: "start" | "encoded" | "decoded"

vars == <<doc, form_fields, pc, queue, loadRes, last, fl, cin, cbytes, cout, cpc>>

formVars == <<doc, form_fields, pc, queue, loadRes, last, fl>>
codecVars == <<cin, cbytes, cout, cpc>>

\* ---------------------------------------------------------------- bounds

\* Longest String the codec specification encodes.
MaxStrLen == 2
\* How many NUL code units a producer may append to an encoded string.
MaxPad == 1

\* ------------------------------------------------------- sequence helpers

Some(v) == [ok |-> TRUE, v |-> v]
None == [ok |-> FALSE]

RECURSIVE Concat(_)
Concat(ss) == IF ss = <<>> THEN <<>> ELSE Head(ss) \o Concat(Tail(ss))

Contains(seq, x) == \E i \in 1..Len(seq) : seq[i] = x

Zeros(n) == [i \in 1..n |-> 0]

RECURSIVE SeqsUpTo(_, _)
SeqsUpTo(S, n) ==
    IF n = 0 THEN {<<>>}
    ELSE LET shorter == SeqsUpTo(S, n - 1)
         IN shorter \cup {Append(s, x) : s \in shorter, x \in S}

\* ------------------------------------------------- Rust String conversions

\* str::encode_utf16: one unit for a scalar below 0x10000, a surrogate pair above.
RECURSIVE EncodeUtf16(_)
EncodeUtf16(s) ==
    IF s = <<>> THEN <<>>
    ELSE LET c == Head(s)
         IN (IF c < 65536 THEN <<c>>
             ELSE <<55296 + ((c - 65536) \div 1024), 56320 + ((c - 65536) % 1024)>>)
            \o EncodeUtf16(Tail(s))

\* String::from_utf16: Err on an unpaired surrogate.
RECURSIVE FromUtf16(_)
FromUtf16(u) ==
    IF u = <<>> THEN Some(<<>>)
    ELSE LET h == Head(u)
         IN IF h < 55296 \/ h > 57343
            THEN LET r == FromUtf16(Tail(u))
                 IN IF r.ok THEN Some(<<h>> \o r.v) ELSE None
            ELSE IF h <= 56319 /\ Len(u) >= 2 /\ u[2] >= 56320 /\ u[2] <= 57343
            THEN LET r == FromUtf16(Tail(Tail(u)))
                 IN IF r.ok
                    THEN Some(<<65536 + (h - 55296) * 1024 + (u[2] - 56320)>> \o r.v)
                    ELSE None
            ELSE None

\* String::into_bytes / as_bytes: the UTF-8 encoding of the String.
RECURSIVE IntoBytes(_)
IntoBytes(s) ==
    IF s = <<>> THEN <<>>
    ELSE LET c == Head(s)
         IN (IF c < 128 THEN <<c>>
             ELSE IF c < 2048 THEN <<192 + (c \div 64), 128 + (c % 64)>>
             ELSE IF c < 65536
                  THEN <<224 + (c \div 4096), 128 + ((c \div 64) % 64), 128 + (c % 64)>>
             ELSE <<240 + (c \div 262144), 128 + ((c \div 4096) % 64),
                    128 + ((c \div 64) % 64), 128 + (c % 64)>>)
            \o IntoBytes(Tail(s))

IsCont(b) == b >= 128 /\ b <= 191

\* str::from_utf8 / String::from_utf8: Err unless the bytes are well-formed UTF-8
\* (no stray lead or continuation byte, no overlong form, no surrogate).
RECURSIVE FromUtf8(_)
FromUtf8(b) ==
    IF b = <<>> THEN Some(<<>>)
    ELSE LET h == Head(b)
             n == IF h < 128 THEN 1
                  ELSE IF h >= 194 /\ h <= 223 THEN 2
                  ELSE IF h >= 224 /\ h <= 239 THEN 3
                  ELSE IF h >= 240 /\ h <= 244 THEN 4
                  ELSE 0
         IN IF n = 0 \/ Len(b) < n \/ \E i \in 2..n : ~IsCont(b[i]) THEN None
            ELSE LET c == IF n = 1 THEN h
                          ELSE IF n = 2 THEN (h - 192) * 64 + (b[2] - 128)
                          ELSE IF n = 3
                               THEN (h - 224) * 4096 + (b[2] - 128) * 64 + (b[3] - 128)
                          ELSE (h - 240) * 262144 + (b[2] - 128) * 4096
                               + (b[3] - 128) * 64 + (b[4] - 128)
                     good == /\ (n = 3 => c >= 2048 /\ (c < 55296 \/ c > 57343))
                             /\ (n = 4 => c >= 65536 /\ c <= 1114111)
                     r == FromUtf8(SubSeq(b, n + 1, Len(b)))
                 IN IF good /\ r.ok THEN Some(<<c>> \o r.v) ELSE None

\* ToLowercase that leaves every letter as it is
ToLowercaseNone(s) == s

\* str::to_lowercase on the characters the model uses (ASCII and Latin-1 capitals).
ToLowercase(s) ==
    [i \in 1..Len(s) |->
        IF (s[i] >= 65 /\ s[i] <= 90) \/ (s[i] >= 192 /\ s[i] <= 222 /\ s[i] # 215)
        THEN s[i] + 32 ELSE s[i]]

\* ------------------------------------------------------------ String codec

\* ToPdfUTF16::to_pdf_utf16: FE FF, then each UTF-16 unit as two big-endian bytes.
RECURSIVE UnitBytes(_)
UnitBytes(u) ==
    IF u = <<>> THEN <<>>
    ELSE <<(Head(u) \div 256) % 256, Head(u) % 256>> \o UnitBytes(Tail(u))

to_pdf_utf16(s) == <<254, 255>> \o UnitBytes(EncodeUtf16(s))

\* The loop of encode_form_name: `string_u16[i / 2] = if i % 2 == 0 { byte << 8 }
\* else { byte }` for the bytes after the first two, i counted from 0.  The odd
\* byte is ASSIGNED to the unit, it is not or-ed into it.
RECURSIVE PairBytes(_, _, _)
PairBytes(rest, i, u16) ==
    IF i >= Len(rest) THEN u16
    ELSE PairBytes(rest, i + 1,
            [u16 EXCEPT ![(i \div 2) + 1] =
                IF i % 2 = 0 THEN (rest[i + 1] * 256) % 65536 ELSE rest[i + 1]])

\* position(|x| *x == 0).unwrap_or(len)
StrEnd(u16) ==
    IF \E i \in 1..Len(u16) : u16[i] = 0
    THEN (CHOOSE i \in 1..Len(u16) : u16[i] = 0 /\ \A j \in 1..(i - 1) : u16[j] # 0) - 1
    ELSE Len(u16)

\* Form::encode_form_name: Option<String>
encode_form_name(string_u8) ==
    LET rest == SubSeq(string_u8, 3, Len(string_u8))
        string_u16 == PairBytes(rest, 0, Zeros(Len(string_u8)))
    IN FromUtf16(SubSeq(string_u16, 1, StrEnd(string_u16)))

\* ------------------------------------------- the codec as a state machine

\* Code points the codec specification draws Strings from: NUL, 'A', e-acute
\* (U+00E9), U+0100 (low byte zero), the euro sign U+20AC.
CodecAlphabet == {0, 65, 233, 256, 8364}

InitCodec ==
    /\ cin \in SeqsUpTo(CodecAlphabet, MaxStrLen)
    /\ cbytes = <<>>
    /\ cout = None
    /\ cpc = "start"

CodecEncode ==
    /\ cpc = "start"
    /\ cbytes' = to_pdf_utf16(cin)
    /\ cpc' = "encoded"
    /\ UNCHANGED <<cin, cout>>
    /\ UNCHANGED formVars

\* A producer that NUL-terminates its strings: the stored bytes carry 00 00.
CodecPad ==
    /\ cpc = "encoded"
    /\ Len(cbytes) < 2 + 2 * Len(EncodeUtf16(cin)) + 2 * MaxPad
    /\ cbytes' = cbytes \o <<0, 0>>
    /\ UNCHANGED <<cin, cout, cpc>>
    /\ UNCHANGED formVars

CodecDecode ==
    /\ cpc = "encoded"
    /\ cout' = encode_form_name(cbytes)
    /\ cpc' = "decoded"
    /\ UNCHANGED <<cin, cbytes>>
    /\ UNCHANGED formVars

\* ------------------------------------------------------------ lopdf Objects

Null == [t |-> "Null"]
Integer(i) == [t |-> "Int", i |-> i]
Name(n) == [t |-> "Name", n |-> n]
Str(b) == [t |-> "Str", b |-> b, fmt |-> "Literal"]
Arr(a) == [t |-> "Arr", a |-> a]
Dict(e) == [t |-> "Dict", e |-> e]
Ref(r) == [t |-> "Ref", r |-> r]

IsDict(o) == o.t = "Dict"
IsLiteral(o) == o.t = "Str" /\ o.fmt = "Literal"

\* Dictionary::has / get / set / remove on the entry sequence.
Has(d, key) == \E i \in 1..Len(d.e) : d.e[i][1] = key
Get(d, key) == d.e[CHOOSE i \in 1..Len(d.e) : d.e[i][1] = key][2]
Keys(d) == [i \in 1..Len(d.e) |-> d.e[i][1]]

RECURSIVE Without(_, _)
Without(e, key) ==
    IF e = <<>> THEN <<>>
    ELSE IF Head(e)[1] = key THEN Without(Tail(e), key)
    ELSE <<Head(e)>> \o Without(Tail(e), key)

Remove(d, key) == Dict(Without(d.e, key))
Set(d, key, v) ==
    IF Has(d, key)
    THEN Dict([i \in 1..Len(d.e) |-> IF d.e[i][1] = key THEN <<key, v>> ELSE d.e[i]])
    ELSE Dict(Append(d.e, <<key, v>>))

\* PdfObjectDeref::deref: Result<&Object, LoadError>
Deref(objects, o) ==
    IF o.t # "Ref" THEN [ok |-> FALSE, err |-> [r |-> "NotAReference"]]
    ELSE IF o.r \notin DOMAIN objects
    THEN [ok |-> FALSE, err |-> [r |-> "NoSuchReference", oid |-> o.r]]
    ELSE [ok |-> TRUE, v |-> objects[o.r]]

\* Names the code compares with, as bytes: "Btn", "Ch", "Yes", "Off".
Btn == <<66, 116, 110>>
Ch == <<67, 104>>
Yes == <<89, 101, 115>>
Off == <<79, 102, 102>>

\* bitflags! ButtonFlags / ChoiceFlags
RADIO == 32768
PUSHBUTTON == 65536
COBMO == 131072
MULTISELECT == 2097152
\* flags.intersects(mask) for a one-bit mask, after `as u32` (the low 32 bits, in
\* two's complement): the bit is floor(ff / mask) mod 2, for negative ff as well.
Intersects(ff, mask) == (ff \div mask) % 2 = 1

\* --------------------------------------------------------- field discovery

\* Form::get_field_name: the dictionary's T, when it is a string that decodes.
get_field_name(objects, field_id) ==
    LET field_dict == objects[field_id]
    IN IF Has(field_dict, "T") /\ Get(field_dict, "T").t = "Str"
       THEN encode_form_name(Get(field_dict, "T").b)
       ELSE None

\* get_full_name that leaves the ancestors out
get_own_name(objects, field_id, chain) ==
    IF field_id \notin DOMAIN objects \/ ~IsDict(objects[field_id]) THEN [k |-> "None"]
    ELSE IF get_field_name(objects, field_id).ok
    THEN [k |-> "Some", v |-> get_field_name(objects, field_id).v]
    ELSE [k |-> "None"]

\* Form::get_full_name: Option<String>.  `chain` are the ids the recursion is
\* inside of: the code keeps no such set, and a Parent reference back into the
\* chain recurses until the stack is exhausted ("Overflow": the call never returns).
RECURSIVE get_full_name(_, _, _)
get_full_name(objects, field_id, chain) ==
    IF field_id \in chain THEN [k |-> "Overflow"]
    ELSE IF field_id \notin DOMAIN objects THEN [k |-> "None"]
    ELSE IF ~IsDict(objects[field_id]) THEN [k |-> "None"]
    ELSE LET field_dict == objects[field_id]
             field_name == get_field_name(objects, field_id)
         IN IF ~field_name.ok THEN [k |-> "None"]
            ELSE IF Has(field_dict, "Parent") /\ Get(field_dict, "Parent").t = "Ref"
            THEN LET parent_name ==
                         get_full_name(objects, Get(field_dict, "Parent").r,
                                       chain \cup {field_id})
                 IN IF parent_name.k = "Some"
                    THEN [k |-> "Some", v |-> parent_name.v \o <<46>> \o field_name.v]
                    ELSE parent_name
            ELSE [k |-> "Some", v |-> field_name.v]

\* HashMap::insert
MapInsert(map, key, val) ==
    [x \in DOMAIN map \cup {key} |-> IF x = key THEN val ELSE map[x]]

\* ------------------------------------------------------------ get_type

\* Object::as_name_str: the name's bytes as UTF-8
NameStr(o) == IF o.t = "Name" THEN FromUtf8(o.n) ELSE None

\* field.get(b"Ff").unwrap_or(&obj_zero).as_i64(): Err unless an Integer
FlagsOrZero(field) ==
    IF ~Has(field, "Ff") THEN Some(0)
    ELSE IF Get(field, "Ff").t = "Int" THEN Some(Get(field, "Ff").i)
    ELSE None

\* ButtonType with the two tests in the other order
ButtonTypePushFirst(flags) ==
    IF Intersects(flags, PUSHBUTTON) THEN "Button"
    ELSE IF Intersects(flags, RADIO) THEN "Radio"
    ELSE "CheckBox"

\* The Btn branch of get_type
ButtonType(flags) ==
    IF Intersects(flags, RADIO) THEN "Radio"
    ELSE IF Intersects(flags, PUSHBUTTON) THEN "Button"
    ELSE "CheckBox"

\* The Ch branch of get_type
ChoiceType(flags) ==
    IF Intersects(flags, COBMO) THEN "ComboBox" ELSE "ListBox"

\* get_type once FT (type_str) and Ff (flags) are read; an unwrap of Err panics.
Classify(type_str, flags) ==
    IF ~type_str.ok THEN "Panic"
    ELSE IF type_str.v = Btn THEN (IF flags.ok THEN ButtonType(flags.v) ELSE "Panic")
    ELSE IF type_str.v = Ch THEN (IF flags.ok THEN ChoiceType(flags.v) ELSE "Panic")
    ELSE "Text"

TypeOfField(field) ==
    IF ~IsDict(field) \/ ~Has(field, "FT") THEN "Panic"
    ELSE Classify(NameStr(Get(field, "FT")), FlagsOrZero(field))

\* Form::get_type: a FieldType, "DictionaryKeyNotFound", or "Panic" (an unwrap
\* of Err/None aborts the call).
get_type(objects, fields, name) ==
    IF name \notin DOMAIN fields THEN "DictionaryKeyNotFound"
    ELSE TypeOfField(objects[fields[name]])

\* ------------------------------------------------------------ get_state

Panicked == [tag |-> "Panic"]

\* Every element of a sequence of Option values is Some
AllOk(rs) == \A i \in 1..Len(rs) : rs[i].ok
Values(rs) == [i \in 1..Len(rs) |-> rs[i].v]
\* collect() over unwrap()s: None when one of them panics
Collect(rs) == IF AllOk(rs) THEN Some(Values(rs)) ELSE None
Flatten(r) == IF r.ok THEN Some(Concat(r.v)) ELSE None
Single(r) == IF r.ok THEN Some(<<r.v>>) ELSE None
NonEmpty(r) == IF r.ok THEN Some(SelectSeq(r.v, LAMBDA x : Len(x) > 0)) ELSE None
Utf8All(bs) == Collect([i \in 1..Len(bs) |-> FromUtf8(bs[i])])

\* The AP.N dictionary of a dereferenced kid; None when an unwrap in
\* `.as_dict().unwrap().get(b"AP").unwrap().as_dict().unwrap().get(b"N").unwrap()
\* .as_dict().unwrap()` fails.
NOfAp(ap) ==
    IF ~IsDict(ap) \/ ~Has(ap, "N") \/ ~IsDict(Get(ap, "N")) THEN None
    ELSE Some(Get(ap, "N"))

NOfKid(d) ==
    IF ~d.ok THEN None
    ELSE IF ~IsDict(d.v) \/ ~Has(d.v, "AP") THEN None
    ELSE NOfAp(Get(d.v, "AP"))

KeysUtf8(n) == IF n.ok THEN Utf8All(Keys(n.v)) ELSE None

\* One kid of get_possibilities: the keys of its AP.N dictionary, each through
\* String::from_utf8(..).unwrap()
KidOptions(objects, kid) == KeysUtf8(NOfKid(Deref(objects, kid)))

\* Form::get_possibilities: Some(options), or None when it panics.
get_possibilities(objects, oid) ==
    IF Has(objects[oid], "Kids") /\ Get(objects[oid], "Kids").t = "Arr"
    THEN Flatten(Collect([i \in 1..Len(Get(objects[oid], "Kids").a) |->
                            KidOptions(objects, Get(objects[oid], "Kids").a[i])]))
    ELSE Some(<<>>)

\* `selected` of a Radio field: V, else AS, else ""; each through as_name_str().unwrap()
RadioSelected(field) ==
    IF Has(field, "V") THEN NameStr(Get(field, "V"))
    ELSE IF Has(field, "AS") THEN NameStr(Get(field, "AS"))
    ELSE Some(<<>>)

RadioState(selected, options) ==
    IF selected.ok /\ options.ok
    THEN [tag |-> "Radio", selected |-> selected.v, options |-> options.v]
    ELSE Panicked

\* `is_checked` of a CheckBox field: the name read as for a Radio field is "Yes"
CheckBoxState(field, s) ==
    IF ~s.ok THEN Panicked
    ELSE [tag |-> "CheckBox",
          is_checked |-> (Has(field, "V") \/ Has(field, "AS")) /\ s.v = Yes]

\* `selected` of a ListBox / ComboBox field
SelectedOf(selection) ==
    IF IsLiteral(selection) THEN Single(FromUtf8(selection.b))
    ELSE IF selection.t = "Arr"
    THEN Utf8All([i \in 1..Len(SelectSeq(selection.a, IsLiteral)) |->
                    SelectSeq(selection.a, IsLiteral)[i].b])
    ELSE Some(<<>>)

ChoiceSelected(field) ==
    IF ~Has(field, "V") THEN Some(<<>>) ELSE SelectedOf(Get(field, "V"))

\* One entry of Opt: a literal string, or an array whose SECOND element is one
\* (`&arr[1]` panics on a shorter array); anything else gives "".
OptEntry(x) ==
    IF IsLiteral(x) THEN FromUtf8(x.b)
    ELSE IF x.t = "Arr"
    THEN IF Len(x.a) < 2 THEN None
         ELSE IF IsLiteral(x.a[2]) THEN FromUtf8(x.a[2].b)
         ELSE Some(<<>>)
    ELSE Some(<<>>)

\* `options` of a ListBox / ComboBox field
ChoiceOptions(field) ==
    IF Has(field, "Opt") /\ Get(field, "Opt").t = "Arr"
    THEN NonEmpty(Collect([i \in 1..Len(Get(field, "Opt").a) |->
                              OptEntry(Get(field, "Opt").a[i])]))
    ELSE Some(<<>>)

\* `multiselect`: field.get(b"Ff").unwrap().as_i64().unwrap(), no default here
ChoiceMultiselect(field) ==
    IF Has(field, "Ff") /\ Get(field, "Ff").t = "Int"
    THEN Some(Intersects(Get(field, "Ff").i, MULTISELECT))
    ELSE None

ChoiceState(tag, selected, options, multiselect) ==
    IF selected.ok /\ options.ok /\ multiselect.ok
    THEN [tag |-> tag, selected |-> selected.v, options |-> options.v,
          multiselect |-> multiselect.v]
    ELSE Panicked

\* `text` of a Text field: V when a literal string, through str::from_utf8(..).unwrap()
TextOf(field) ==
    IF Has(field, "V") /\ IsLiteral(Get(field, "V"))
    THEN FromUtf8(Get(field, "V").b)
    ELSE Some(<<>>)

TextState(text) == IF text.ok THEN [tag |-> "Text", text |-> text.v] ELSE Panicked

\* The match of get_state on the field's type
StateOf(objects, oid, field, ty) ==
    CASE ty = "Button" -> [tag |-> "Button"]
      [] ty = "Radio" -> RadioState(RadioSelected(field), get_possibilities(objects, oid))
      [] ty = "CheckBox" -> CheckBoxState(field, RadioSelected(field))
      [] ty = "ListBox" ->
            ChoiceState("ListBox", ChoiceSelected(field), ChoiceOptions(field),
                        ChoiceMultiselect(field))
      [] ty = "ComboBox" ->
            ChoiceState("ComboBox", ChoiceSelected(field), ChoiceOptions(field),
                        ChoiceMultiselect(field))
      [] ty = "Text" -> TextState(TextOf(field))
      [] OTHER -> Panicked

\* Form::get_state: a FieldState, or [tag |-> "Panic"] when an unwrap aborts it.
get_state(objects, fields, name) ==
    IF name \notin DOMAIN fields THEN Panicked
    ELSE StateOf(objects, fields[name], objects[fields[name]],
                 get_type(objects, fields, name))

\* --------------------------------------------------------------- setters
\* Each returns [objects |-> the live doc.objects afterwards, res |-> "Ok", a
\* ValueError, or "Panic"].

Ret(objects, res) == [objects |-> objects, res |-> res]

\* The Ok(FieldType::Text) arm of set_text: V is the UTF-16 form, AP is removed
WriteText(objects, id, s) ==
    [objects EXCEPT ![id] = Remove(Set(objects[id], "V", Str(to_pdf_utf16(s))), "AP")]

SetTextAs(objects, fields, name, s, ty) ==
    IF ty = "Panic" THEN Ret(objects, "Panic")
    ELSE IF ty = "Text" THEN Ret(WriteText(objects, fields[name], s), "Ok")
    ELSE Ret(objects, "TypeMismatch")

\* Form::set_text
set_text(objects, fields, name, s) ==
    SetTextAs(objects, fields, name, s, get_type(objects, fields, name))

\* KidAs that switches every widget to the choice
KidAsAlways(kid_options_dict, choice) == Name(IntoBytes(choice))

\* The body of set_radio's `for kid in kids`: the kid's AS in the LIVE objects.
KidAs(kid_options_dict, choice) ==
    IF Has(kid_options_dict, IntoBytes(choice)) THEN Name(IntoBytes(choice))
    ELSE Name(Off)

RadioKid(objects, kid, choice) ==
    [objects EXCEPT ![kid.r] =
        Set(objects[kid.r], "AS", KidAs(Get(Get(objects[kid.r], "AP"), "N"), choice))]

RECURSIVE RadioKids(_, _, _)
RadioKids(objects, kids, choice) ==
    IF kids = <<>> THEN objects
    ELSE RadioKids(RadioKid(objects, Head(kids), choice), Tail(kids), choice)

\* `field.set("V", Object::Name(choice.into_bytes()))` on doc_objects, the clone
CloneWithV(doc_objects, field_id, choice) ==
    [doc_objects EXCEPT ![field_id] = Set(doc_objects[field_id], "V", Name(IntoBytes(choice)))]

\* The `if options.contains(&choice)` arm of set_radio.  `doc_objects` is a CLONE
\* of self.doc.objects taken before the loop; `field` points into the clone, so
\* `field.set("V", ..)` writes the clone, which is dropped at the end of the block.
\* The kids are written through self.doc.objects, the live map, which is what the
\* Form keeps.
RadioSelect(objects, field_id, choice) ==
    LET doc_objects == objects
        live == RadioKids(objects, Get(doc_objects[field_id], "Kids").a, choice)
        dropped == CloneWithV(doc_objects, field_id, choice)
    IN live

\* SetRadioIn writing the kids before it rejects the choice
SetRadioInEager(objects, fields, name, choice, state) ==
    IF state.tag = "Panic" THEN Ret(objects, "Panic")
    ELSE IF state.tag = "Radio"
    THEN IF Contains(state.options, choice)
         THEN Ret(RadioSelect(objects, fields[name], choice), "Ok")
         ELSE Ret(RadioSelect(objects, fields[name], choice), "InvalidSelection")
    ELSE Ret(objects, "TypeMismatch")

SetRadioIn(objects, fields, name, choice, state) ==
    IF state.tag = "Panic" THEN Ret(objects, "Panic")
    ELSE IF state.tag = "Radio"
    THEN IF Contains(state.options, choice)
         THEN Ret(RadioSelect(objects, fields[name], choice), "Ok")
         ELSE Ret(objects, "InvalidSelection")
    ELSE Ret(objects, "TypeMismatch")

\* Form::set_radio
set_radio(objects, fields, name, choice) ==
    SetRadioIn(objects, fields, name, choice, get_state(objects, fields, name))

CheckBoxName(is_checked) == Name(IF is_checked THEN Yes ELSE Off)

SetCheckBoxAs(objects, fields, name, is_checked, ty) ==
    IF ty = "Panic" THEN Ret(objects, "Panic")
    ELSE IF ty = "CheckBox"
    THEN Ret([objects EXCEPT ![fields[name]] =
                Set(Set(objects[fields[name]], "V", CheckBoxName(is_checked)),
                    "AS", CheckBoxName(is_checked))], "Ok")
    ELSE Ret(objects, "TypeMismatch")

\* Form::set_check_box
set_check_box(objects, fields, name, is_checked) ==
    SetCheckBoxAs(objects, fields, name, is_checked, get_type(objects, fields, name))

\* The V that set_choice writes
ChoiceValue(choices) ==
    IF Len(choices) = 0 THEN Null
    ELSE IF Len(choices) = 1 THEN Str(IntoBytes(choices[1]))
    ELSE Arr([i \in 1..Len(choices) |-> Str(IntoBytes(choices[i]))])

\* ChoiceVerdict without the cardinality test
ChoiceVerdictNoLimit(options, multiselect, choices) ==
    IF \A i \in 1..Len(choices) : Contains(options, choices[i])
    THEN "Ok"
    ELSE "InvalidSelection"

\* The order of set_choice's two validations: membership of every choice first,
\* the cardinality second.
ChoiceVerdict(options, multiselect, choices) ==
    IF \A i \in 1..Len(choices) : Contains(options, choices[i])
    THEN IF ~multiselect /\ Len(choices) > 1 THEN "TooManySelected" ELSE "Ok"
    ELSE "InvalidSelection"

SetChoiceBy(objects, id, choices, verdict) ==
    IF verdict = "Ok"
    THEN Ret([objects EXCEPT ![id] = Set(objects[id], "V", ChoiceValue(choices))], "Ok")
    ELSE Ret(objects, verdict)

SetChoiceIn(objects, fields, name, choices, state) ==
    IF state.tag = "Panic" THEN Ret(objects, "Panic")
    ELSE IF state.tag \in {"ListBox", "ComboBox"}
    THEN SetChoiceBy(objects, fields[name], choices,
                     ChoiceVerdict(state.options, state.multiselect, choices))
    ELSE Ret(objects, "TypeMismatch")

\* Form::set_choice
set_choice(objects, fields, name, choices) ==
    SetChoiceIn(objects, fields, name, choices, get_state(objects, fields, name))

\* ------------------------------------------------------------- documents
\* The documents the model loads.  Strings are written as their code points:
\* 97 'a', 98 'b', 99 'c', 101 'e', 102 'f', 114 'r', 120 'x', 121 'y',
\* 122 'z', 46 '.', 91 '[', 93 ']', 48 '0', 49 '1'.

\* A producer's T entry: the name as UTF-16BE with the byte-order marker.
PdfText(s) == Str(to_pdf_utf16(s))

Stream == [t |-> "Stream"]

\* A widget of a radio group: AP.N has one entry per appearance state.
Widget(states, as, parent) ==
    Dict(<< <<"AP", Dict(<< <<"N", Dict([i \in 1..Len(states) |-> <<states[i], Ref(9)>>])>> >>)>>,
            <<"AS", Name(as)>>,
            <<"Parent", Ref(parent)>> >>)

\* Trailer -> catalog (1) -> AcroForm (2) -> Fields, as load_doc walks them.
Trailer == Dict(<< <<"Root", Ref(1)>> >>)
Catalog == Dict(<< <<"AcroForm", Ref(2)>> >>)
AcroForm(fields) == Dict(<< <<"Fields", Arr(fields)>> >>)

Document(trailer, catalog, acroform, others) ==
    [trailer |-> trailer,
     objects |-> [id \in {1, 2, 9} \cup DOMAIN others |->
                    IF id = 1 THEN catalog
                    ELSE IF id = 2 THEN acroform
                    ELSE IF id = 9 THEN Stream
                    ELSE others[id]]]

WellFormed(fields, others) == Document(Trailer, Catalog, AcroForm(fields), others)

\* A form with a hierarchy: "a[0]" (no FT) holds the text field "b" and the radio
\* group "r" with two widgets, the first one on; "c" is a top-level check box
\* without Ff.
FormObjects ==
    (10 :> Dict(<< <<"T", PdfText(<<97, 91, 48, 93>>)>>,
                   <<"Kids", Arr(<<Ref(11), Ref(12)>>)>> >>)) @@
    (11 :> Dict(<< <<"FT", Name(<<84, 120>>)>>, <<"T", PdfText(<<98>>)>>,
                   <<"Parent", Ref(10)>>,
                   <<"AP", Dict(<< <<"N", Ref(9)>> >>)>> >>)) @@
    (12 :> Dict(<< <<"FT", Name(Btn)>>, <<"Ff", Integer(RADIO)>>,
                   <<"T", PdfText(<<114>>)>>, <<"Parent", Ref(10)>>,
                   <<"Kids", Arr(<<Ref(13), Ref(14)>>)>> >>)) @@
    (13 :> Widget(<< <<120>>, Off >>, <<120>>, 12)) @@
    (14 :> Widget(<< <<121>>, Off >>, Off, 12)) @@
    (15 :> Dict(<< <<"FT", Name(Btn)>>, <<"T", PdfText(<<99>>)>> >>))

FormDocs ==
    {WellFormed(f, FormObjects) :
        f \in {<<Ref(10)>>, <<Ref(10), Ref(15)>>, <<Ref(15)>>}}

\* A three-level name with two bracketed indices: "a[0].b[1].c".
DeepObjects ==
    (30 :> Dict(<< <<"T", PdfText(<<97, 91, 48, 93>>)>>,
                   <<"Kids", Arr(<<Ref(31)>>)>> >>)) @@
    (31 :> Dict(<< <<"T", PdfText(<<98, 91, 49, 93>>)>>, <<"Parent", Ref(30)>>,
                   <<"Kids", Arr(<<Ref(32)>>)>> >>)) @@
    (32 :> Dict(<< <<"FT", Name(<<84, 120>>)>>, <<"T", PdfText(<<99>>)>>,
                   <<"Parent", Ref(31)>> >>))

DeepDocs == {WellFormed(<<Ref(30)>>, DeepObjects)}

\* One field "f" of every FT and Ff the classifier distinguishes; it carries
\* widgets and an Opt array so that every variant has something to decode.
FtValues == {Btn, Ch, <<84, 120>>, <<83, 105, 103>>}
FfValues ==
    {<<>>} \cup
    {<<Integer(n)>> : n \in {0, RADIO, PUSHBUTTON, RADIO + PUSHBUTTON, COBMO,
                             MULTISELECT, COBMO + MULTISELECT, -1}}

OneField(ft, ff) ==
    (20 :> Dict(<< <<"FT", Name(ft)>>, <<"T", PdfText(<<102>>)>> >>
                \o [i \in 1..Len(ff) |-> <<"Ff", ff[i]>>]
                \o << <<"Kids", Arr(<<Ref(21), Ref(22)>>)>>,
                      <<"Opt", Arr(<<Str(<<120>>),
                                     Arr(<<Str(<<101>>), Str(<<121>>)>>)>>)>> >>)) @@
    (21 :> Widget(<< <<120>>, Off >>, Off, 20)) @@
    (22 :> Widget(<< <<121>>, Off >>, <<121>>, 20))

OneFieldDocs == {WellFormed(<<Ref(20)>>, OneField(ft, ff)) : ft \in FtValues, ff \in FfValues}

\* Documents discovery has to tolerate or reject: a Fields entry without FT, one
\* without T, one whose T does not decode (a lone surrogate), one that is no
\* dictionary, one that is no reference, a dangling one, an empty Fields array,
\* an FT that is a string, an Ff that is a name, and a broken Root / AcroForm /
\* Fields chain.
OddObjects ==
    (40 :> Dict(<< <<"T", PdfText(<<102>>)>> >>)) @@
    (41 :> Dict(<< <<"FT", Name(<<84, 120>>)>> >>)) @@
    (42 :> Dict(<< <<"FT", Name(<<84, 120>>)>>, <<"T", Str(<<254, 255, 216>>)>> >>)) @@
    (43 :> Stream) @@
    (44 :> Dict(<< <<"FT", Name(<<84, 120>>)>>, <<"T", PdfText(<<102>>)>> >>)) @@
    (45 :> Dict(<< <<"FT", Str(<<84, 120>>)>>, <<"T", PdfText(<<102>>)>> >>)) @@
    (46 :> Dict(<< <<"FT", Name(Btn)>>, <<"Ff", Name(Off)>>, <<"T", PdfText(<<102>>)>> >>))

OddDocs ==
    {WellFormed(f, OddObjects) :
        f \in {<<>>, <<Ref(40)>>, <<Ref(41)>>, <<Ref(42)>>, <<Ref(43)>>, <<Ref(45)>>,
               <<Ref(46)>>,
               <<Ref(44), Ref(40)>>, <<Ref(44), Integer(5)>>, <<Ref(44), Ref(99)>>}}
    \cup {Document(tr, Catalog, AcroForm(<<Ref(44)>>), OddObjects) :
            tr \in {Dict(<<>>), Dict(<< <<"Root", Integer(1)>> >>),
                    Dict(<< <<"Root", Ref(99)>> >>), Dict(<< <<"Root", Ref(9)>> >>)}}
    \cup {Document(Trailer, cat, AcroForm(<<Ref(44)>>), OddObjects) :
            cat \in {Dict(<<>>), Dict(<< <<"AcroForm", Integer(2)>> >>),
                     Dict(<< <<"AcroForm", Ref(99)>> >>),
                     Dict(<< <<"AcroForm", Ref(9)>> >>)}}
    \cup {Document(Trailer, Catalog, acro, OddObjects) :
            acro \in {Dict(<<>>), Dict(<< <<"Fields", Ref(44)>> >>)}}

\* Names through Parent chains: the container 50 has an undecodable T; its kids
\* are "f" below it (51), "g" whose Parent 55 "p" is outside the Kids tree (52),
\* "g" with a dangling Parent (53), "f" without Parent (54) and "g" whose
\* Parent is not a reference (57); 56 is a second top-level "f".
NamedObjects ==
    (50 :> Dict(<< <<"T", Str(<<254, 255, 216>>)>>,
                   <<"Kids", Arr(<<Ref(51), Ref(52), Ref(53), Ref(54), Ref(57)>>)>> >>)) @@
    (51 :> Dict(<< <<"FT", Name(<<84, 120>>)>>, <<"T", PdfText(<<102>>)>>,
                   <<"Parent", Ref(50)>> >>)) @@
    (52 :> Dict(<< <<"FT", Name(<<84, 120>>)>>, <<"T", PdfText(<<103>>)>>,
                   <<"Parent", Ref(55)>> >>)) @@
    (53 :> Dict(<< <<"FT", Name(<<84, 120>>)>>, <<"T", PdfText(<<103>>)>>,
                   <<"Parent", Ref(99)>> >>)) @@
    (54 :> Dict(<< <<"FT", Name(<<84, 120>>)>>, <<"T", PdfText(<<102>>)>> >>)) @@
    (55 :> Dict(<< <<"T", PdfText(<<112>>)>> >>)) @@
    (56 :> Dict(<< <<"FT", Name(<<84, 120>>)>>, <<"T", PdfText(<<102>>)>> >>)) @@
    (57 :> Dict(<< <<"FT", Name(<<84, 120>>)>>, <<"T", PdfText(<<103>>)>>,
                   <<"Parent", Integer(5)>> >>))

NamedDocs ==
    {WellFormed(f, NamedObjects) :
        f \in {<<Ref(50)>>, <<Ref(50), Ref(56)>>, <<Ref(56), Ref(50)>>}}

\* Hierarchies that run into themselves: 60 "a" and its kid 61 "b", whose Kids
\* lists 60 again; 62 and 63, each the Parent of the other; 65, its own kid.
LoopObjects ==
    (60 :> Dict(<< <<"FT", Name(<<84, 120>>)>>, <<"T", PdfText(<<97>>)>>,
                   <<"Kids", Arr(<<Ref(61)>>)>> >>)) @@
    (61 :> Dict(<< <<"FT", Name(<<84, 120>>)>>, <<"T", PdfText(<<98>>)>>,
                   <<"Parent", Ref(60)>>, <<"Kids", Arr(<<Ref(60)>>)>> >>)) @@
    (62 :> Dict(<< <<"FT", Name(<<84, 120>>)>>, <<"T", PdfText(<<97>>)>>,
                   <<"Parent", Ref(63)>> >>)) @@
    (63 :> Dict(<< <<"T", PdfText(<<98>>)>>, <<"Parent", Ref(62)>> >>)) @@
    (65 :> Dict(<< <<"T", PdfText(<<97>>)>>, <<"Kids", Arr(<<Ref(65)>>)>> >>))

LoopDocs ==
    {WellFormed(f, LoopObjects) : f \in {<<Ref(60)>>, <<Ref(62)>>, <<Ref(65)>>}}

IsDoc(d) ==
    \/ d \in FormDocs
    \/ d \in DeepDocs
    \/ d \in OneFieldDocs
    \/ d \in OddDocs
    \/ d \in NamedDocs
    \/ d \in LoopDocs

\* ---------------------------------------------------- the Form: load_doc

NoCall == [op |-> "none", name |-> <<>>, arg |-> <<>>, res |-> "none",
           state |-> [tag |-> "none"]]
EmptyMap == [x \in {} |-> 0]

\* The locals of fill, before it is called
FillIdle ==
    [st |-> "idle", fields |-> EmptyMap, todo |-> {}, field_name |-> <<>>,
     name |-> <<>>, i |-> 0, part_names |-> <<>>, iters |-> 0,
     pre |-> EmptyMap, prev |-> EmptyMap, log |-> <<>>, res |-> "none",
     err |-> [error |-> "none", field |-> <<>>, value |-> <<>>]]

CodecIdle ==
    /\ cin = <<>>
    /\ cbytes = <<>>
    /\ cout = None
    /\ cpc = "idle"

Init ==
    /\ IsDoc(doc)
    /\ form_fields = EmptyMap
    /\ pc = "start"
    /\ queue = <<>>
    /\ loadRes = [r |-> "none"]
    /\ last = NoCall
    /\ fl = FillIdle
    /\ CodecIdle

\* dict.get(key).or(Err(DictionaryKeyNotFound))?.deref(&doc)?.as_dict()
\*     .or(Err(UnexpectedType))?
DerefDict(objects, dict, key) ==
    IF ~Has(dict, key) THEN [ok |-> FALSE, err |-> [r |-> "DictionaryKeyNotFound"]]
    ELSE LET d == Deref(objects, Get(dict, key))
         IN IF ~d.ok THEN d
            ELSE IF ~IsDict(d.v) THEN [ok |-> FALSE, err |-> [r |-> "UnexpectedType"]]
            ELSE d

\* The head of load_doc: Root, AcroForm, Fields.  Fields itself is not dereferenced.
FieldsList(d) ==
    LET catalog == DerefDict(d.objects, d.trailer, "Root")
    IN IF ~catalog.ok THEN catalog
       ELSE LET acroform == DerefDict(d.objects, catalog.v, "AcroForm")
            IN IF ~acroform.ok THEN acroform
               ELSE IF ~Has(acroform.v, "Fields")
               THEN [ok |-> FALSE, err |-> [r |-> "DictionaryKeyNotFound"]]
               ELSE IF Get(acroform.v, "Fields").t # "Arr"
               THEN [ok |-> FALSE, err |-> [r |-> "UnexpectedType"]]
               ELSE [ok |-> TRUE, v |-> Get(acroform.v, "Fields").a]

LoadFail(err) ==
    /\ pc' = "failed"
    /\ loadRes' = err
    /\ queue' = <<>>
    /\ UNCHANGED <<doc, form_fields, last, fl>>

\* load_doc up to `queue.append(fields_list)`
LoadStart ==
    /\ pc = "start"
    /\ LET fields_list == FieldsList(doc)
       IN IF fields_list.ok
          THEN /\ queue' = fields_list.v
               /\ pc' = "load"
               /\ UNCHANGED <<doc, form_fields, loadRes, last, fl>>
          ELSE LoadFail(fields_list.err)
    /\ UNCHANGED codecVars

\* KidsToQueue that never descends
KidsToQueueNone(dict) == <<>>

\* `if let Ok(&Object::Array(ref kids)) = dict.get(b"Kids")`: what is appended
KidsToQueue(dict) ==
    IF Has(dict, "Kids") /\ Get(dict, "Kids").t = "Arr" THEN Get(dict, "Kids").a ELSE <<>>

\* One turn of `while let Some(objref) = queue.pop_front()`
LoadStep ==
    /\ pc = "load"
    /\ queue # <<>>
    /\ LET objref == Head(queue)
           obj == Deref(doc.objects, objref)
       IN IF ~obj.ok THEN LoadFail(obj.err)
          ELSE IF ~IsDict(obj.v)
          THEN /\ queue' = Tail(queue)
               /\ UNCHANGED <<doc, form_fields, pc, loadRes, last, fl>>
          ELSE LET dict == obj.v
                   name == IF Has(dict, "FT")
                           THEN get_full_name(doc.objects, objref.r, {})
                           ELSE [k |-> "None"]
                   kids == KidsToQueue(dict)
               IN IF name.k = "Overflow"
                  THEN LoadFail([r |-> "Panic"])
                  ELSE /\ form_fields' = IF name.k = "Some"
                                         THEN MapInsert(form_fields, name.v, objref.r)
                                         ELSE form_fields
                       /\ queue' = Tail(queue) \o kids
                       /\ UNCHANGED <<doc, pc, loadRes, last, fl>>
    /\ UNCHANGED codecVars

\* The queue is empty: Ok(Form { doc, form_fields: map })
LoadDone ==
    /\ pc = "load"
    /\ queue = <<>>
    /\ pc' = "ready"
    /\ loadRes' = [r |-> "Ok"]
    /\ UNCHANGED <<doc, form_fields, queue, last, fl>>
    /\ UNCHANGED codecVars

Load == LoadStart \/ LoadStep \/ LoadDone

\* Form::get_field_names
get_field_names == DOMAIN form_fields

\* ------------------------------------------------- the Form: direct calls

\* Arguments of the calls: "", "A", the euro sign; radio and choice options.
Texts == {<<>>, <<65>>, <<8364>>}
Choices == {<<120>>, <<121>>, <<79, 102, 102>>, <<122, 122>>}
ChoiceLists ==
    {<<>>, <<(<<120>>)>>, <<(<<121>>)>>, <<(<<122, 122>>)>>, << <<120>>, <<121>> >>,
     << <<120>>, <<122, 122>> >>}
\* A name no document of the model has a field for.
Unknown == <<110, 111>>
CallNames == get_field_names \cup {Unknown}

Called(op, name, arg, r, state) ==
    /\ last' = [op |-> op, name |-> name, arg |-> arg, res |-> r.res, state |-> state]
    /\ doc' = [doc EXCEPT !.objects = r.objects]
    /\ UNCHANGED <<form_fields, pc, queue, loadRes, fl>>
    /\ UNCHANGED codecVars

GetTypeCall ==
    /\ pc = "ready"
    /\ \E name \in CallNames :
          Called("get_type", name, <<>>,
                 Ret(doc.objects, get_type(doc.objects, form_fields, name)),
                 [tag |-> "none"])

StateRes(state) == IF state.tag = "Panic" THEN "Panic" ELSE "Ok"

GetStateCall ==
    /\ pc = "ready"
    /\ \E name \in CallNames :
          \E state \in {get_state(doc.objects, form_fields, name)} :
             Called("get_state", name, <<>>, Ret(doc.objects, StateRes(state)), state)

SetTextCall ==
    /\ pc = "ready"
    /\ \E name \in CallNames, s \in Texts :
          Called("set_text", name, s, set_text(doc.objects, form_fields, name, s),
                 [tag |-> "none"])

SetRadioCall ==
    /\ pc = "ready"
    /\ \E name \in CallNames, choice \in Choices :
          Called("set_radio", name, choice,
                 set_radio(doc.objects, form_fields, name, choice), [tag |-> "none"])

SetCheckBoxCall ==
    /\ pc = "ready"
    /\ \E name \in CallNames, is_checked \in BOOLEAN :
          Called("set_check_box", name, is_checked,
                 set_check_box(doc.objects, form_fields, name, is_checked),
                 [tag |-> "none"])

SetChoiceCall ==
    /\ pc = "ready"
    /\ \E name \in CallNames, choices \in ChoiceLists :
          Called("set_choice", name, choices,
                 set_choice(doc.objects, form_fields, name, choices), [tag |-> "none"])

Next ==
    \/ Load
    \/ GetTypeCall
    \/ GetStateCall
    \/ SetTextCall
    \/ SetRadioCall
    \/ SetCheckBoxCall
    \/ SetChoiceCall

Spec == Init /\ [][Next]_vars

\* ------------------------------------------------------------------ fill

IsDigit(c) == c >= 48 /\ c <= 57

\* The index after the run of digits that starts at j
RECURSIVE DigitsEnd(_, _)
DigitsEnd(s, j) == IF j <= Len(s) /\ IsDigit(s[j]) THEN DigitsEnd(s, j + 1) ELSE j

\* The regex \[\d+] matches at i: '[', one or more digits, ']'
MatchAt(s, i) ==
    /\ s[i] = 91
    /\ DigitsEnd(s, i + 1) > i + 1
    /\ DigitsEnd(s, i + 1) <= Len(s)
    /\ s[DigitsEnd(s, i + 1)] = 93

FirstMatch(s) ==
    CHOOSE i \in 1..Len(s) : MatchAt(s, i) /\ \A j \in 1..(i - 1) : ~MatchAt(s, j)

\* r.replace(name, ""): Regex::replace replaces the leftmost match only
StripIndex(s) ==
    IF \E i \in 1..Len(s) : MatchAt(s, i)
    THEN SubSeq(s, 1, FirstMatch(s) - 1)
         \o SubSeq(s, DigitsEnd(s, FirstMatch(s) + 1) + 1, Len(s))
    ELSE s

FirstDot(s) == CHOOSE i \in 1..Len(s) : s[i] = 46 /\ \A j \in 1..(i - 1) : s[j] # 46

\* field_name.split(".").collect()
RECURSIVE SplitDot(_)
SplitDot(s) ==
    IF \E i \in 1..Len(s) : s[i] = 46
    THEN <<SubSeq(s, 1, FirstDot(s) - 1)>> \o SplitDot(SubSeq(s, FirstDot(s) + 1, Len(s)))
    ELSE <<s>>

\* part_names.join(".")
RECURSIVE JoinDot(_)
JoinDot(parts) ==
    IF parts = <<>> THEN <<>>
    ELSE IF Len(parts) = 1 THEN parts[1]
    ELSE parts[1] \o <<46>> \o JoinDot(Tail(parts))

\* DropLead that keeps every segment
DropLeadNothing(part_names) == part_names

\* part_names[1..].to_vec()
DropLead(part_names) == Tail(part_names)

\* "true"
TrueText == <<116, 114, 117, 101>>

\* The match on get_type(&field_name) in fill: the setter each type is handed to
Dispatch(objects, fields, field_name, map_v, ty) ==
    CASE ty = "Radio" -> set_radio(objects, fields, field_name, map_v)
      [] ty = "CheckBox" ->
            set_check_box(objects, fields, field_name, ToLowercase(map_v) = TrueText)
      [] ty = "Text" -> set_text(objects, fields, field_name, map_v)
      [] ty = "Panic" -> Ret(objects, "Panic")
      [] OTHER -> Ret(objects, "Ok")

ValueErrors == {"TypeMismatch", "InvalidSelection", "TooManySelected"}

\* AfterSetter that goes on to the next field after a ValueError
AfterSetterLenient(res) == IF res = "Panic" THEN "Panic" ELSE "continue"

\* `.map_err(map_err)?`: what fill does with the setter's result
AfterSetter(res) ==
    IF res \in ValueErrors THEN "FieldError"
    ELSE IF res = "Panic" THEN "Panic"
    ELSE "continue"

\* Input mappings of fill: at most MaxKeys keys, each with one of three values
\* ("x", "zz", "TRUE").  The keys are the names a field of the loaded document
\* could be looked up under, and the unrelated "zz".
MaxKeys == 2
FormKeys ==
    {<<97, 91, 48, 93, 46, 98>>, <<97, 46, 98>>, <<98>>, <<114>>, <<99>>, <<122, 122>>}
DeepKeys ==
    {<<97, 46, 98, 91, 49, 93, 46, 99>>, <<97, 46, 98, 46, 99>>,
     <<98, 91, 49, 93, 46, 99>>, <<98, 46, 99>>, <<99>>, <<122, 122>>}
FillValues == {<<120>>, <<122, 122>>, <<84, 82, 85, 69>>}
FillKeys == IF <<97, 91, 48, 93, 46, 98, 91, 49, 93, 46, 99>> \in DOMAIN form_fields
            THEN DeepKeys ELSE FormKeys
KeySets == {K \in SUBSET FillKeys : Cardinality(K) <= MaxKeys}

FillUnchanged ==
    /\ UNCHANGED <<form_fields, queue, loadRes, last>>
    /\ UNCHANGED codecVars

\* fill is called on the freshly loaded Form: `self.form_fields.clone().keys()`
FillStart ==
    /\ pc = "ready"
    /\ fl.st = "idle"
    /\ \E K \in KeySets : \E fields \in [K -> FillValues] :
          fl' = [fl EXCEPT !.st = "next", !.fields = fields,
                           !.todo = DOMAIN form_fields,
                           !.pre = doc.objects, !.prev = doc.objects]
    /\ pc' = "fill"
    /\ UNCHANGED doc
    /\ FillUnchanged

\* The next key of the HashMap iteration, in whatever order the map yields them
FillNextField ==
    /\ pc = "fill"
    /\ fl.st = "next"
    /\ \E field_name \in fl.todo :
          fl' = [fl EXCEPT !.st = "loop", !.todo = fl.todo \ {field_name},
                           !.field_name = field_name, !.name = field_name,
                           !.part_names = SplitDot(field_name), !.i = 0, !.iters = 0,
                           !.prev = doc.objects]
    /\ UNCHANGED <<doc, pc>>
    /\ FillUnchanged

\* `while part_names.len() >= 1 && !fields.contains_key(&name)`
LoopCondition == Len(fl.part_names) >= 1 /\ fl.name \notin DOMAIN fl.fields

\* `if i == 0 { i = 1; name = r.replace(name.as_str(), "").into() }`
FillStrip ==
    /\ pc = "fill"
    /\ fl.st = "loop"
    /\ LoopCondition
    /\ fl.i = 0
    /\ fl' = [fl EXCEPT !.i = 1, !.name = StripIndex(fl.name), !.iters = fl.iters + 1]
    /\ UNCHANGED <<doc, pc>>
    /\ FillUnchanged

\* `else { i = 0; part_names = part_names[1..].to_vec(); name = part_names.join(".") }`
FillDrop ==
    /\ pc = "fill"
    /\ fl.st = "loop"
    /\ LoopCondition
    /\ fl.i # 0
    /\ fl' = [fl EXCEPT !.i = 0, !.part_names = DropLead(fl.part_names),
                        !.name = JoinDot(DropLead(fl.part_names)),
                        !.iters = fl.iters + 1]
    /\ UNCHANGED <<doc, pc>>
    /\ FillUnchanged

\* `if part_names.is_empty() { continue; }`
FillSkip ==
    /\ pc = "fill"
    /\ fl.st = "loop"
    /\ ~LoopCondition
    /\ fl.part_names = <<>>
    /\ fl' = [fl EXCEPT !.st = "next",
                        !.log = Append(fl.log, [field |-> fl.field_name, matched |-> FALSE,
                                                key |-> <<>>, value |-> <<>>,
                                                res |-> "skipped"])]
    /\ UNCHANGED <<doc, pc>>
    /\ FillUnchanged

\* The matched field: the setter for its type, then `?` on its result
FillApply ==
    /\ pc = "fill"
    /\ fl.st = "loop"
    /\ ~LoopCondition
    /\ fl.part_names # <<>>
    /\ \E r \in {Dispatch(doc.objects, form_fields, fl.field_name, fl.fields[fl.name],
                          get_type(doc.objects, form_fields, fl.field_name))} :
          /\ doc' = [doc EXCEPT !.objects = r.objects]
          /\ fl' = [fl EXCEPT
                      !.st = IF AfterSetter(r.res) = "continue" THEN "next" ELSE "done",
                      !.res = IF AfterSetter(r.res) = "continue" THEN fl.res
                              ELSE AfterSetter(r.res),
                      !.err = IF AfterSetter(r.res) = "FieldError"
                              THEN [error |-> r.res, field |-> fl.name,
                                    value |-> fl.fields[fl.name]]
                              ELSE fl.err,
                      !.log = Append(fl.log, [field |-> fl.field_name, matched |-> TRUE,
                                              key |-> fl.name,
                                              value |-> fl.fields[fl.name],
                                              res |-> r.res])]
          /\ pc' = IF AfterSetter(r.res) = "continue" THEN "fill" ELSE "ready"
    /\ FillUnchanged

\* The iteration is over: Ok(())
FillEnd ==
    /\ pc = "fill"
    /\ fl.st = "next"
    /\ fl.todo = {}
    /\ fl' = [fl EXCEPT !.st = "done", !.res = "Ok"]
    /\ pc' = "ready"
    /\ UNCHANGED doc
    /\ FillUnchanged

Fill ==
    \/ FillStart
    \/ FillNextField
    \/ FillStrip
    \/ FillDrop
    \/ FillSkip
    \/ FillApply
    \/ FillEnd

\* The forms fill is followed on: the hierarchy form and the three-level name.
InitFill ==
    /\ (doc \in FormDocs \/ doc \in DeepDocs)
    /\ form_fields = EmptyMap
    /\ pc = "start"
    /\ queue = <<>>
    /\ loadRes = [r |-> "none"]
    /\ last = NoCall
    /\ fl = FillIdle
    /\ CodecIdle

NextFill == Load \/ Fill

SpecFill == InitFill /\ [][NextFill]_vars

\* ------------------------------------------- the discovery on its own

\* load_doc runs to its end without a pause: once called, its loop keeps taking
\* turns for as long as it has one to take.
SpecLoad == Init /\ [][Load]_vars /\ WF_vars(Load)

\* ------------------------------------------------ the codec specification

NoDocument == [trailer |-> Dict(<<>>), objects |-> EmptyMap]

InitCodecSpec ==
    /\ InitCodec
    /\ doc = NoDocument
    /\ form_fields = EmptyMap
    /\ pc = "codec"
    /\ queue = <<>>
    /\ loadRes = [r |-> "none"]
    /\ last = NoCall
    /\ fl = FillIdle

NextCodec == CodecEncode \/ CodecPad \/ CodecDecode

SpecCodec == InitCodecSpec /\ [][NextCodec]_vars


\* ====================================================================
\* Properties of the direct calls (specification Spec)
\* ====================================================================

Setters == {"set_text", "set_radio", "set_check_box", "set_choice"}

\* The dictionary of the field the last call named
LastField == doc.objects[form_fields[last.name]]

\* C1: a setter that returns a ValueError (TypeMismatch, InvalidSelection,
\* TooManySelected) leaves the document exactly as it was before the call, and
\* so leaves the state get_state reports for the field as it was.
C1_RejectedSetterChangesNothing ==
    [][(last'.op \in Setters /\ last'.res \in ValueErrors)
         => /\ doc' = doc
            /\ get_state(doc'.objects, form_fields', last'.name)
                 = get_state(doc.objects, form_fields, last'.name)]_vars

\* A set_radio call rejected with InvalidSelection on a radio field of which
\* one widget is switched on.
C1_Witness ==
    /\ last.op = "set_radio"
    /\ last.res = "InvalidSelection"
    /\ last.name \in DOMAIN form_fields
    /\ \E i \in 1..Len(KidsToQueue(LastField)) :
          LET kid == doc.objects[KidsToQueue(LastField)[i].r]
          IN Has(kid, "AS") /\ Get(kid, "AS") # Name(Off)

\* C2: after set_radio returned Ok, the V entry of the field in the document
\* the Form holds is the name `choice`, and get_state reports `choice` selected.
C2_RadioValueInDocument ==
    (last.op = "set_radio" /\ last.res = "Ok")
      => /\ Has(LastField, "V")
         /\ Get(LastField, "V") = Name(IntoBytes(last.arg))
         /\ get_state(doc.objects, form_fields, last.name).tag = "Radio"
         /\ get_state(doc.objects, form_fields, last.name).selected = last.arg

\* C3: for a Text field and a string s, get_state after set_text(name, s)
\* returns a Text state, and the same value as after a second
\* set_text(name, s).
C3_SetTextIdempotent ==
    (last.op = "set_text" /\ last.res = "Ok")
      => \A once \in {get_state(doc.objects, form_fields, last.name)} :
            /\ once.tag = "Text"
            /\ once = get_state(set_text(doc.objects, form_fields, last.name,
                                         last.arg).objects,
                                form_fields, last.name)

\* Every choice is one of the options
AllOptions(options, choices) ==
    \A i \in 1..Len(choices) : Contains(options, choices[i])

\* C4 (as stated): set_choice on a field whose decoded state has
\* multiselect = false, called with more than one choice, returns
\* TooManySelected.
C4_TooManySelected ==
    [][(last'.op = "set_choice" /\ last'.name \in DOMAIN form_fields)
         => \A state \in {get_state(doc.objects, form_fields, last'.name)} :
               (/\ state.tag \in {"ListBox", "ComboBox"}
                /\ ~state.multiselect
                /\ Len(last'.arg) > 1)
                 => last'.res = "TooManySelected"]_vars

\* C4 (amended): on such a field and with more than one choice, set_choice
\* returns TooManySelected when every choice is one of the field's options,
\* and InvalidSelection when some choice is not; the document is untouched
\* either way.
C4_MembershipBeforeCardinality ==
    [][(last'.op = "set_choice" /\ last'.name \in DOMAIN form_fields)
         => \A state \in {get_state(doc.objects, form_fields, last'.name)} :
               (/\ state.tag \in {"ListBox", "ComboBox"}
                /\ ~state.multiselect
                /\ Len(last'.arg) > 1)
                 => /\ last'.res = IF AllOptions(state.options, last'.arg)
                                   THEN "TooManySelected"
                                   ELSE "InvalidSelection"
                    /\ doc' = doc]_vars

\* Two options chosen on a single-select field, rejected for their number.
C4_Witness ==
    /\ last.op = "set_choice"
    /\ last.res = "TooManySelected"
    /\ Len(last.arg) = 2
    /\ last.name \in DOMAIN form_fields
    /\ ~Intersects(Get(LastField, "Ff").i, MULTISELECT)

\* The entries of a Fields or Kids array that are references
RefIds(entries) ==
    {entries[i].r : i \in {j \in 1..Len(entries) : entries[j].t = "Ref"}}

\* The Kids array of an object, empty when it has none
KidsOf(objects, id) ==
    IF id \in DOMAIN objects /\ IsDict(objects[id]) /\ Has(objects[id], "Kids")
       /\ Get(objects[id], "Kids").t = "Arr"
    THEN Get(objects[id], "Kids").a
    ELSE <<>>

\* The object ids reached from a set of ids through Kids
RECURSIVE Reached(_, _, _)
Reached(objects, frontier, seen) ==
    IF frontier \subseteq seen THEN seen
    ELSE Reached(objects,
                 UNION {RefIds(KidsOf(objects, id)) : id \in frontier \ seen},
                 seen \cup frontier)

\* Every entry is a reference to an object of the document
Resolves(objects, entries) ==
    \A i \in 1..Len(entries) :
       entries[i].t = "Ref" /\ entries[i].r \in DOMAIN objects

\* The hierarchy under Fields holds references to existing objects only
Resolvable(d, fields_list) ==
    /\ Resolves(d.objects, fields_list)
    /\ \A id \in Reached(d.objects, RefIds(fields_list), {}) :
          Resolves(d.objects, KidsOf(d.objects, id))

\* No Parent chain below Fields runs into itself
ParentsEnd(d, fields_list) ==
    \A id \in Reached(d.objects, RefIds(fields_list), {}) :
       get_full_name(d.objects, id, {}).k # "Overflow"

\* An object the discovery indexes: a dictionary with FT and a full name
Indexable(objects, id) ==
    /\ IsDict(objects[id])
    /\ Has(objects[id], "FT")
    /\ get_full_name(objects, id, {}).k = "Some"

FieldTypes == {"Button", "Radio", "CheckBox", "ListBox", "ComboBox", "Text"}

\* FT is a name (of valid UTF-8) and Ff, when present, an integer
Typed(field) ==
    /\ Has(field, "FT") /\ Get(field, "FT").t = "Name"
    /\ FromUtf8(Get(field, "FT").n).ok
    /\ Has(field, "Ff") => Get(field, "Ff").t = "Int"

\* C9 (as stated): a document with a well-formed Root -> AcroForm -> Fields
\* chain and a non-empty Fields array loads, get_field_names is non-empty, and
\* get_type succeeds for every name in it.
C9_NonEmptyFieldsLoad ==
    (pc \in {"ready", "failed"} /\ FieldsList(doc).ok /\ Len(FieldsList(doc).v) > 0)
      => /\ loadRes.r = "Ok"
         /\ get_field_names # {}
         /\ \A name \in get_field_names :
               get_type(doc.objects, form_fields, name) \in FieldTypes

\* C9 (amended): with a well-formed chain and a hierarchy whose Fields and
\* Kids entries are all references to existing objects and whose Parent
\* chains end, load succeeds;
\* get_field_names is non-empty exactly when a reached dictionary has FT and a
\* decodable name; get_type succeeds for every indexed name whose FT is a name
\* and whose Ff, if present, is an integer.
C9_ResolvableFieldsLoad ==
    (pc \in {"ready", "failed"} /\ FieldsList(doc).ok
       /\ Resolvable(doc, FieldsList(doc).v)
       /\ ParentsEnd(doc, FieldsList(doc).v))
      => /\ loadRes.r = "Ok"
         /\ get_field_names # {}
              <=> \E id \in Reached(doc.objects, RefIds(FieldsList(doc).v), {}) :
                     Indexable(doc.objects, id)
         /\ \A name \in get_field_names :
               Typed(doc.objects[form_fields[name]])
                 => get_type(doc.objects, form_fields, name) \in FieldTypes

\* A loaded form with fields found below the Fields array, one of them asked
\* for its type.
C9_Witness ==
    /\ pc = "ready"
    /\ FieldsList(doc).ok
    /\ Cardinality(get_field_names) >= 2
    /\ \E name \in get_field_names :
          form_fields[name] \notin RefIds(FieldsList(doc).v)
    /\ last.op = "get_type"
    /\ last.name \in get_field_names
    /\ last.res \in FieldTypes

\* Bit k of the flags word
Bit(flags, k) == (flags \div (2 ^ k)) % 2 = 1

\* The decision table of section 4.2
TypeTable(ft, flags) ==
    CASE ft = <<66, 116, 110>> /\ Bit(flags, 15) -> "Radio"
      [] ft = <<66, 116, 110>> /\ ~Bit(flags, 15) /\ Bit(flags, 16) -> "Button"
      [] ft = <<66, 116, 110>> /\ ~Bit(flags, 15) /\ ~Bit(flags, 16) -> "CheckBox"
      [] ft = <<67, 104>> /\ Bit(flags, 17) -> "ComboBox"
      [] ft = <<67, 104>> /\ ~Bit(flags, 17) -> "ListBox"
      [] OTHER -> "Text"

RECURSIVE StripAll(_)
StripAll(s) == IF StripIndex(s) = s THEN s ELSE StripAll(StripIndex(s))

\* The candidate names of section 4.6 from a candidate on: strip every index,
\* then drop the candidate's leading segment, alternately, until no segment
\* is left.
RECURSIVE Candidates(_, _)
Candidates(cand, strip) ==
    <<cand>> \o
    (IF strip THEN Candidates(StripAll(cand), FALSE)
     ELSE IF Len(SplitDot(cand)) <= 1 THEN <<>>
     ELSE Candidates(JoinDot(Tail(SplitDot(cand))), TRUE))

\* The first candidate that is a key of the mapping, <<>> when none is
FirstKey(cands, keys) ==
    IF \E j \in 1..Len(cands) : cands[j] \in keys
    THEN <<cands[CHOOSE j \in 1..Len(cands) :
                    cands[j] \in keys /\ \A k \in 1..(j - 1) : cands[k] \notin keys]>>
    ELSE <<>>

\* C5: for every field fill looks at, the key it uses is the first member of
\* the sequence "full name; every [digits] removed; leading segment dropped;
\* every [digits] removed; ..." that is a key of the mapping, and the field
\* is skipped only when no member is.
C5_CandidateSequence ==
    \A n \in 1..Len(fl.log) :
       \A first \in {FirstKey(Candidates(fl.log[n].field, TRUE), DOMAIN fl.fields)} :
          IF first = <<>> THEN ~fl.log[n].matched
          ELSE fl.log[n].matched /\ fl.log[n].key = first[1]

\* The names the loop can hold for a field: each suffix of its dotted
\* segments, as it is and with its first [digits] removed.
Tried(field_name) ==
    LET parts == SplitDot(field_name)
        suffix(k) == JoinDot(SubSeq(parts, k, Len(parts)))
    IN {suffix(k) : k \in 1..Len(parts)}
         \cup {StripIndex(suffix(k)) : k \in 1..Len(parts)}

\* C6: the candidate loop of a field takes at most two turns per segment of
\* its name; a field none of whose candidates is a key is skipped with the
\* document as it was; and a fill whose mapping matches no field returns Ok
\* with the document as it was before the call.
C6_UnmatchedFieldSkipped ==
    /\ fl.st = "loop" => fl.iters <= 2 * Len(SplitDot(fl.field_name))
    /\ (fl.st \in {"next", "done"} /\ fl.log # <<>>
          /\ Tried(fl.log[Len(fl.log)].field) \cap DOMAIN fl.fields = {})
         => /\ ~fl.log[Len(fl.log)].matched
            /\ doc.objects = fl.prev
            /\ fl.res # "FieldError"
    /\ (fl.st = "done"
          /\ \A name \in get_field_names : Tried(name) \cap DOMAIN fl.fields = {})
         => /\ fl.res = "Ok"
            /\ doc.objects = fl.pre
            /\ Len(fl.log) = Cardinality(get_field_names)

\* A fill over several fields with a mapping whose only key matches none of
\* them has returned.
C6_Witness ==
    /\ fl.st = "done"
    /\ fl.res = "Ok"
    /\ DOMAIN fl.fields = {<<122, 122>>}
    /\ Len(fl.log) >= 2
    /\ \A n \in 1..Len(fl.log) : ~fl.log[n].matched

\* C7 (as stated): when fill returns a FieldError, no field of the document
\* has been modified by the call.
C7_AllOrNothing ==
    fl.res = "FieldError" => doc.objects = fl.pre

\* C7 (amended): fill stops at the first setter that returns a ValueError and
\* returns a FieldError carrying that error, the matched key and its value;
\* the failing setter changes nothing, no later field is processed, and the
\* text a field processed earlier was set to stays in the document.
C7_FailFast ==
    /\ \A n \in 1..Len(fl.log) :
          fl.log[n].res \in ValueErrors
            => /\ n = Len(fl.log)
               /\ fl.st = "done"
               /\ fl.res = "FieldError"
               /\ fl.err = [error |-> fl.log[n].res, field |-> fl.log[n].key,
                            value |-> fl.log[n].value]
               /\ doc.objects = fl.prev
    /\ fl.res = "FieldError"
         => fl.log # <<>> /\ fl.log[Len(fl.log)].res \in ValueErrors
    /\ \A n \in 1..Len(fl.log) :
          (fl.log[n].res = "Ok"
             /\ get_type(fl.pre, form_fields, fl.log[n].field) = "Text")
            => Get(doc.objects[form_fields[fl.log[n].field]], "V")
                 = Str(to_pdf_utf16(fl.log[n].value))

\* fill returned a FieldError after it had modified an earlier field.
C7_Witness ==
    /\ fl.st = "done"
    /\ fl.res = "FieldError"
    /\ Len(fl.log) >= 2
    /\ fl.log[1].res = "Ok"
    /\ doc.objects # fl.pre

\* ====================================================================
\* Properties of the string codec (specification SpecCodec)
\* ====================================================================

\* C8: encode_form_name(to_pdf_utf16(s)) = Some(s) for every s of Basic
\* Multilingual Plane characters without U+0000, characters above U+00FF
\* included; and the bytes FE FF 00 41 00 00 decode to "A".
C8_RoundTrip ==
    cpc = "decoded"
      => /\ (cbytes = to_pdf_utf16(cin)
               /\ \A i \in 1..Len(cin) : cin[i] # 0 /\ cin[i] < 65536)
              => cout = Some(cin)
         /\ cbytes = <<254, 255, 0, 65, 0, 0>> => cout = Some(<<65>>)

\* ====================================================================
\* fill on check boxes (specification SpecFill)
\* ====================================================================

\* The letters t, r, u, e in either case
IsTrueIgnoringCase(value) ==
    /\ Len(value) = 4
    /\ value[1] \in {116, 84}
    /\ value[2] \in {114, 82}
    /\ value[3] \in {117, 85}
    /\ value[4] \in {101, 69}

\* C11: a CheckBox field that fill matched to an input value has V and AS
\* both `Yes` when the value is "true" in any letter case and both `Off` for
\* any other value, and get_state reports is_checked true exactly in the
\* first case.
C11_CheckBoxFromText ==
    \A n \in 1..Len(fl.log) :
       (fl.log[n].matched
          /\ get_type(fl.pre, form_fields, fl.log[n].field) = "CheckBox")
         => \A field \in {doc.objects[form_fields[fl.log[n].field]]} :
               \A state \in {get_state(doc.objects, form_fields, fl.log[n].field)} :
                  /\ fl.log[n].res = "Ok"
                  /\ Has(field, "V") /\ Has(field, "AS")
                  /\ Get(field, "V") = Get(field, "AS")
                  /\ Get(field, "V") = IF IsTrueIgnoringCase(fl.log[n].value)
                                       THEN Name(<<89, 101, 115>>)
                                       ELSE Name(<<79, 102, 102>>)
                  /\ state.tag = "CheckBox"
                  /\ state.is_checked = IsTrueIgnoringCase(fl.log[n].value)

\* fill has ticked the check box "c" from the value "TRUE".
C11_Witness ==
    /\ fl.st = "done"
    /\ fl.res = "Ok"
    /\ \E n \in 1..Len(fl.log) :
          /\ fl.log[n].matched
          /\ fl.log[n].field = <<99>>
          /\ fl.log[n].value = <<84, 82, 85, 69>>
          /\ get_state(doc.objects, form_fields, <<99>>)
               = [tag |-> "CheckBox", is_checked |-> TRUE]

\* ====================================================================
\* The index after load (specification Spec)
\* ====================================================================

\* The decoded T of a dictionary
Segment(dict) ==
    IF Has(dict, "T") /\ Get(dict, "T").t = "Str"
    THEN encode_form_name(Get(dict, "T").b)
    ELSE None

\* The decoded T segments from the outermost Parent-chain ancestor to the
\* object itself; None when one of them is missing or does not decode.
RECURSIVE Segments(_, _, _)
Segments(objects, id, below) ==
    IF id \in below \/ id \notin DOMAIN objects THEN None
    ELSE IF ~IsDict(objects[id]) THEN None
    ELSE IF ~Segment(objects[id]).ok THEN None
    ELSE IF Has(objects[id], "Parent") /\ Get(objects[id], "Parent").t = "Ref"
    THEN \* the ancestors first
         IF Segments(objects, Get(objects[id], "Parent").r, below \cup {id}).ok
         THEN Some(Append(Segments(objects, Get(objects[id], "Parent").r,
                                   below \cup {id}).v,
                          Segment(objects[id]).v))
         ELSE None
    ELSE Some(<<Segment(objects[id]).v>>)

\* The segments joined with "."
RECURSIVE Dotted(_)
Dotted(segments) ==
    IF Len(segments) = 1 THEN segments[1]
    ELSE segments[1] \o <<46>> \o Dotted(Tail(segments))

\* The dictionaries the claim speaks of: reached from Fields through Kids,
\* with FT, and with a full name that decodes
Named(d) ==
    {id \in Reached(d.objects, RefIds(FieldsList(d).v), {}) :
        /\ id \in DOMAIN d.objects
        /\ IsDict(d.objects[id])
        /\ Has(d.objects[id], "FT")
        /\ Segments(d.objects, id, {}).ok}

NameOf(d, id) == Dotted(Segments(d.objects, id, {}).v)

\* C12 (as stated): after a successful load the index has an entry for
\* exactly the dictionaries reached from Fields through Kids that carry FT
\* and whose T and ancestors' T decode, under the dot-joined name.
C12_EntryPerDictionary ==
    (pc = "ready" /\ loadRes.r = "Ok")
      => /\ \A id \in Named(doc) :
               NameOf(doc, id) \in get_field_names /\ form_fields[NameOf(doc, id)] = id
         /\ \A name \in get_field_names :
               form_fields[name] \in Named(doc) /\ NameOf(doc, form_fields[name]) = name

\* C12 (amended): after a successful load the names in the index are exactly
\* the dot-joined names of those dictionaries, and each name is mapped to one
\* dictionary that carries it: the only one when the name is unique, one of
\* them when several dictionaries share it.  A dictionary whose name does not
\* decode has no entry and does not fail the load.
C12_EntryPerName ==
    (pc = "ready" /\ loadRes.r = "Ok")
      => /\ get_field_names = {NameOf(doc, id) : id \in Named(doc)}
         /\ \A name \in get_field_names :
               form_fields[name] \in Named(doc) /\ NameOf(doc, form_fields[name]) = name

\* A loaded form in which two dictionaries share a name, one field is named
\* through a Parent outside the Kids tree, and two fields are left out
\* because an ancestor does not decode or is missing.
C12_Witness ==
    /\ pc = "ready"
    /\ loadRes.r = "Ok"
    /\ \E id, other \in Named(doc) : id # other /\ NameOf(doc, id) = NameOf(doc, other)
    /\ <<112, 46, 103>> \in get_field_names
    /\ \E id \in Reached(doc.objects, RefIds(FieldsList(doc).v), {}) :
          /\ id \in DOMAIN doc.objects
          /\ IsDict(doc.objects[id]) /\ Has(doc.objects[id], "FT")
          /\ id \notin Named(doc)

\* ====================================================================
\* Termination of the discovery (specification SpecLoad)
\* ====================================================================

LoadErrors == {"DictionaryKeyNotFound", "NoSuchReference", "NotAReference",
               "UnexpectedType"}

\* load has returned a Form or a LoadError
LoadEnded ==
    \/ pc = "ready" /\ loadRes.r = "Ok"
    \/ pc = "failed" /\ loadRes.r \in LoadErrors

\* C13: on every document the discovery ends: the queue becomes empty and the
\* name resolution returns, so that load yields a Form or a LoadError, also
\* when a Kids array refers back to an ancestor or a Parent chain is cyclic.
C13_DiscoveryEnds == <>LoadEnded

\* ====================================================================
\* The widgets of a radio group (specification Spec)
\* ====================================================================

\* The widget has an appearance state of that name: a key of its AP.N
HasAppearance(widget, choice) ==
    Has(Get(Get(widget, "AP"), "N"), IntoBytes(choice))

\* The widgets the field's Kids array lists
Widgets(objects, field) ==
    {Get(field, "Kids").a[i].r : i \in 1..Len(Get(field, "Kids").a)}

\* C14: after set_radio(name, choice) returned Ok, every widget in the Kids
\* of the field has AS = choice if its AP.N has the key `choice`, AS = Off if
\* not, in the document the Form holds; on a Radio field set_radio returns
\* InvalidSelection exactly when no widget's AP.N has the key `choice`.
C14_RadioWidgets ==
    (last.op = "set_radio" /\ last.name \in get_field_names
       /\ get_type(doc.objects, form_fields, last.name) = "Radio"
       /\ last.res # "Panic")
      => /\ last.res \in {"Ok", "InvalidSelection"}
         /\ last.res = "Ok"
              => \A kid \in Widgets(doc.objects, LastField) :
                    /\ Has(doc.objects[kid], "AS")
                    /\ Get(doc.objects[kid], "AS")
                         = IF HasAppearance(doc.objects[kid], last.arg)
                           THEN Name(IntoBytes(last.arg))
                           ELSE Name(<<79, 102, 102>>)
         /\ last.res = "InvalidSelection"
              <=> (Has(LastField, "Kids")
                     => \A kid \in Widgets(doc.objects, LastField) :
                           ~HasAppearance(doc.objects[kid], last.arg))

\* set_radio has chosen "y" in a group of two widgets of which only one has
\* that state: that one is on, the other one, which was on, is Off.
C14_Witness ==
    /\ last.op = "set_radio"
    /\ last.res = "Ok"
    /\ last.arg = <<121>>
    /\ last.name \in get_field_names
    /\ \E on, off \in Widgets(doc.objects, LastField) :
          /\ HasAppearance(doc.objects[on], last.arg)
          /\ ~HasAppearance(doc.objects[off], last.arg)
          /\ Get(doc.objects[on], "AS") = Name(<<121>>)
          /\ Get(doc.objects[off], "AS") = Name(<<79, 102, 102>>)

\* ====================================================================
\* A choice field without Ff (specification Spec)
\* ====================================================================

\* C15: for an indexed field with FT = Ch and no Ff entry, get_type returns
\* ListBox, get_state returns a ListBox state with multiselect = false, and
\* set_choice returns Ok or a ValueError: none of the three aborts.
C15_AbsentFlagsAreZero ==
    (last.name \in get_field_names
       /\ Has(LastField, "FT") /\ Get(LastField, "FT") = Name(<<67, 104>>)
       /\ ~Has(LastField, "Ff"))
      => /\ last.op = "get_type" => last.res = "ListBox"
         /\ last.op = "get_state"
              => /\ last.res = "Ok"
                 /\ last.state.tag = "ListBox"
                 /\ ~last.state.multiselect
         /\ last.op = "set_choice" => last.res \in {"Ok"} \cup ValueErrors

====
